---------------------------- MODULE Spec2Model ----------------------------
(***************************************************************************)
(* Subtitle-bot: the per-user collection state machine of bot.py and the   *)
(* remux command construction / execution of subtitle_embedder.py.         *)
(*                                                                         *)
(* Handlers are coroutines run by the client's dispatcher: a handler runs  *)
(* without interruption from one await to the next, and at an await any    *)
(* other handler (of any user, the same user included) may run.  One       *)
(* action of this module is one such uninterrupted piece of a handler.     *)
(* Awaits between which no session, table or file is written are merged    *)
(* into one, and the short calls that send, edit or delete a message       *)
(* (reply_text, edit_text, answer, delete) return; downloads, uploads and  *)
(* subprocesses may fail.  subprocess.run is synchronous: while it runs,   *)
(* the event loop runs nothing else (variable proc).                       *)
(***************************************************************************)
EXTENDS Integers, Sequences, FiniteSets, TLC

(* ------------------------------ bounds -------------------------------- *)
\* events (commands, uploads, button presses) that arrive in one run
MaxEvents == 4

(* ------------------------- inputs of the model ------------------------ *)
UserSeq == <<1, 11>>
Users == {UserSeq[i] : i \in 1..Len(UserSeq)}

\* a file name is its stem and its suffix (Path(name).suffix)
FileName(stem, ext) == <<stem, ext>>
NoName == <<>>
SubNames == {FileName("a", ".srt")}
VideoNames == {FileName("v", ".mp4")}
OtherNames == {FileName("x", ".txt")}
DocNames == SubNames \cup VideoNames \cup OtherNames \cup {NoName}
\* codes of the buttons of the language keyboard that the model presses
LangCodes == {"eng", "spa"}

video_extensions == {".mp4", ".mkv", ".avi", ".mov", ".flv", ".wmv", ".webm", ".m4v"}
subtitle_extensions == {".srt", ".ass", ".ssa", ".vtt", ".sub"}

DOWNLOAD_DIR == "downloads/"
OUTPUT_DIR == "output/"

(* ----------------------------- helpers -------------------------------- *)
Range(s) == {s[i] : i \in 1..Len(s)}

DigitChar(d) == <<"0", "1", "2", "3", "4", "5", "6", "7", "8", "9">>[d + 1]

\* str(n) for n >= 0, as the sequence of its decimal digits
RECURSIVE Str(_)
Str(n) == IF n < 10 THEN <<DigitChar(n)>>
          ELSE Str(n \div 10) \o <<DigitChar(n % 10)>>

Suffix(name) == IF name = NoName THEN "" ELSE name[2]
\* document.file_name.rsplit('.', 1)[0]
Stem(name) == name[1]

\* a path is the directory followed by the pieces of the file name
\* DOWNLOAD_DIR / f"{user_id}_{file_name}"
VideoPath(u, name) == <<DOWNLOAD_DIR>> \o Str(u) \o <<"_">> \o name
\* DOWNLOAD_DIR / f"{user_id}_sub_{n}_{document.file_name}"
SubtitlePath(u, n, name) ==
    <<DOWNLOAD_DIR>> \o Str(u) \o <<"_", "sub", "_">> \o Str(n) \o <<"_">> \o name
\* DOWNLOAD_DIR / f"{user_id}_thumb.jpg"
ThumbPath(u) == <<DOWNLOAD_DIR>> \o Str(u) \o <<"_", "thumb", ".jpg">>
\* OUTPUT_DIR / f"{user_id}_{video_path.name}"
OutputPath(u, video_path) == <<OUTPUT_DIR>> \o Str(u) \o <<"_">> \o Tail(video_path)
NoPath == <<>>

GlobMatchNoSeparator(dir, u, p) ==
    LET d == Str(u) IN
    /\ Len(p) >= Len(d) + 2
    /\ p[1] = dir
    /\ SubSeq(p, 2, Len(d) + 1) = d

\* dir.glob(f"{user_id}_*"): the names of dir that start with the id and "_"
GlobMatch(dir, u, p) ==
    LET d == Str(u) IN
    /\ Len(p) >= Len(d) + 2
    /\ p[1] = dir
    /\ SubSeq(p, 2, Len(d) + 1) = d
    /\ p[Len(d) + 2] = "_"

cleanup_user_files_keep(u, fs) == fs

cleanup_user_files_first(u, fs) ==
    LET m == {p \in fs : GlobMatch(DOWNLOAD_DIR, u, p) \/ GlobMatch(OUTPUT_DIR, u, p)}
    IN  IF m = {} THEN fs ELSE fs \ {CHOOSE p \in m : TRUE}

\* the files left after cleanup_user_files(user_id)
cleanup_user_files(u, fs) ==
    {p \in fs : ~(GlobMatch(DOWNLOAD_DIR, u, p) \/ GlobMatch(OUTPUT_DIR, u, p))}

UserFiles(u, fs) == fs \ cleanup_user_files(u, fs)

(* ----------------------------- sessions ------------------------------- *)
\* order and tagged are history fields: for each subtitle the number of the
\* upload event behind it, and the indices a language selection was applied to
UserSession ==
    [ video_path |-> NoPath,
      video_is_document |-> FALSE,
      subtitle_paths |-> <<>>,
      thumbnail_path |-> NoPath,
      languages |-> <<>>,
      titles |-> <<>>,
      state |-> "idle",
      file_name |-> NoName,
      pending_language_selections |-> {},
      order |-> <<>>,
      tagged |-> {},
      selected |-> <<>>,
      via |-> "",
      acked |-> FALSE ]


(* ------------------------- remux command ------------------------------ *)
\* one argument of the command line: text, a number or path formatted into it
Arg(t) == [t |-> t, i |-> -1, v |-> <<>>]
ArgN(t, n) == [t |-> t, i |-> n, v |-> <<>>]
ArgV(t, v) == [t |-> t, i |-> -1, v |-> v]

get_subtitle_format_no_ssa(p) ==
    IF p[Len(p)] = ".ass" THEN "ass" ELSE "srt"

get_subtitle_format(p) ==
    LET ext == p[Len(p)] IN
    CASE ext = ".srt" -> "srt"
      [] ext = ".ass" -> "ass"
      [] ext = ".ssa" -> "ass"
      [] ext = ".vtt" -> "webvtt"
      [] ext = ".sub" -> "subrip"
      [] OTHER -> "srt"

RECURSIVE Concat(_)
Concat(ss) == IF ss = <<>> THEN <<>> ELSE Head(ss) \o Concat(Tail(ss))

SubInputArgs(subs) ==
    Concat([k \in 1..Len(subs) |->
        <<Arg("-sub_charenc"), Arg("UTF-8"), Arg("-i"), ArgV("path", subs[k])>>])

SubMapArgsWithSource(subs) ==
    <<Arg("-map"), Arg("0:s?")>>
    \o Concat([k \in 1..Len(subs) |-> <<Arg("-map"), ArgN("input", (k - 1) + 1)>>])

SubMapArgs(subs) ==
    Concat([k \in 1..Len(subs) |-> <<Arg("-map"), ArgN("input", (k - 1) + 1)>>])

SubCodecArgsByFormat(video_path, subs) ==
    Concat([k \in 1..Len(subs) |->
        IF get_subtitle_format(subs[k]) = "ass"
        THEN <<ArgN("-c:s:", k - 1), Arg("ass")>>
        ELSE <<ArgN("-c:s:", k - 1), Arg("srt")>>])

SubCodecArgs(video_path, subs) ==
    LET video_ext == video_path[Len(video_path)]
        is_mp4 == video_ext \in {".mp4", ".m4v"}
        is_mkv == video_ext \in {".mkv", ".webm"}
    IN  IF is_mp4 THEN <<Arg("-c:s"), Arg("mov_text")>>
        ELSE IF is_mkv THEN
            Concat([k \in 1..Len(subs) |->
                IF get_subtitle_format(subs[k]) = "ass"
                THEN <<ArgN("-c:s:", k - 1), Arg("ass")>>
                ELSE <<ArgN("-c:s:", k - 1), Arg("srt")>>])
        ELSE <<Arg("-c:s"), Arg("srt")>>

\* languages[i] if languages and i < len(languages) else 'und'
LangOf(languages, k) ==
    IF languages # <<>> /\ k - 1 < Len(languages) THEN languages[k] ELSE "und"

\* titles[i] if titles and i < len(titles) else Path(sub_file).stem
TitleOf(titles, subs, k) ==
    IF titles # <<>> /\ k - 1 < Len(titles) THEN titles[k]
    ELSE subs[k][Len(subs[k]) - 1]

SubMetadataArgs(subs, languages, titles) ==
    Concat([k \in 1..Len(subs) |->
        << ArgN("-metadata:s:s:", k - 1), ArgV("language=", <<LangOf(languages, k)>>),
           ArgN("-metadata:s:s:", k - 1), ArgV("title=", <<TitleOf(titles, subs, k)>>),
           ArgN("-disposition:s:", k - 1),
           IF k - 1 = 0 THEN Arg("default") ELSE Arg("0") >>])

\* the argument list embed_multiple_subtitles builds
BuildCommand(video_path, subs, output_path, languages, titles) ==
    <<Arg("ffmpeg"), Arg("-hide_banner"), Arg("-loglevel"), Arg("warning"),
      Arg("-nostdin"), Arg("-y"), Arg("-i"), ArgV("path", video_path)>>
    \o SubInputArgs(subs)
    \o <<Arg("-map"), Arg("0:v?"), Arg("-map"), Arg("0:a?")>>
    \o SubMapArgs(subs)
    \o <<Arg("-c:v"), Arg("copy"), Arg("-c:a"), Arg("copy")>>
    \o SubCodecArgs(video_path, subs)
    \o SubMetadataArgs(subs, languages, titles)
    \o <<Arg("-movflags"), Arg("+faststart"),
         Arg("-max_muxing_queue_size"), Arg("9999")>>
    \o <<ArgV("path", output_path)>>


(* ------------------------------ state --------------------------------- *)
VARIABLES
    user_sessions,  \* user id -> session object (0: the id is not a key)
    heap,           \* the session objects; a handler keeps the one it looked up
    files,          \* the paths that exist in DOWNLOAD_DIR and OUTPUT_DIR
    handlers,       \* the handlers suspended at an await, oldest first
    proc,           \* the subprocess subprocess.run is waiting for, if any
    keyboards,      \* the language keyboards that are still in the chats
    active,         \* environment: the users that send events in this run
    budget,         \* environment: the number of events still to arrive
    banned,         \* the users whose ban flag is set in the database
    probe,          \* a call of get_stream_count: its input and its result
    now,            \* time.time(), in seconds
    progress_trackers,  \* tracker key -> time of the last progress edit
    transfers,      \* the downloads and uploads that report progress
    ev              \* history: the piece of a handler that ran last

vars == <<user_sessions, heap, files, handlers, proc, keyboards, active, budget,
          banned, probe, now, progress_trackers, transfers, ev>>

\* no call of get_stream_count is looked at
NoProbe == [done |-> TRUE]

\* the clock when the process starts: seconds since 1970, far above the interval
Epoch == 1000

\* line 40
NoTrackers == [k \in {} |-> 0]

Handler ==
    [kind |-> "", user |-> 0, pc |-> "", sess |-> 0, name |-> NoName,
     path |-> NoPath, idx |-> -1, tok |-> 0, res |-> ""]
NoProc == [kind |-> "none", slot |-> 0, cmd |-> <<>>]

Ev(op, u, reply) ==
    [op |-> op, user |-> u, reply |-> reply,
     was |-> IF u \in Users /\ user_sessions[u] # 0
             THEN IF heap[user_sessions[u]].subtitle_paths # <<>> THEN "collected"
                  ELSE heap[user_sessions[u]].state
             ELSE "none",
     idx |-> -1]

Slots == DOMAIN handlers
\* the handler at position h has returned
Remove(hs, h) == SubSeq(hs, 1, h - 1) \o SubSeq(hs, h + 1, Len(hs))
\* the event loop runs handlers only while no subprocess.run is waiting
LoopFree == proc.kind = "none"

\* The references to session objects, in a fixed order: the table's, then
\* the handlers'.  A session object nothing refers to is collected, and the
\* others are numbered by their first reference, so that a state does not
\* depend on the names of its objects.
Refs(tbl, hs) ==
    [i \in 1..Len(UserSeq) |-> tbl[UserSeq[i]]] \o [i \in 1..Len(hs) |-> hs[i].sess]
RECURSIVE Distinct(_, _)
Distinct(refs, seen) ==
    IF refs = <<>> THEN <<>>
    ELSE IF Head(refs) = 0 \/ Head(refs) \in seen THEN Distinct(Tail(refs), seen)
    ELSE <<Head(refs)>> \o Distinct(Tail(refs), seen \cup {Head(refs)})
NewId == Len(heap) + 1

Update(tbl, hp, hs) ==
    LET live == Distinct(Refs(tbl, hs), {})
        rank == [s \in 0..Len(hp) |->
                    IF s \in Range(live)
                    THEN CHOOSE n \in 1..Len(live) : live[n] = s ELSE 0]
    IN  /\ user_sessions' = [u \in Users |-> rank[tbl[u]]]
        /\ handlers' = [h \in 1..Len(hs) |-> [hs[h] EXCEPT !.sess = rank[@]]]
        /\ heap' = [n \in 1..Len(live) |-> hp[live[n]]]

\* a suspended handler is resumed by the event loop
Resumes ==
    /\ LoopFree
    /\ UNCHANGED <<active, budget, banned, probe, now, progress_trackers, transfers>>

\* the number of the event that arrives now
EventNo == MaxEvents - budget + 1

\* the dispatcher can hand an event of u to its handler: handlers are
\* coroutines of one event loop, which must not be inside subprocess.run
Dispatchable(u) ==
    /\ LoopFree
    /\ u \in active

\* an event is taken up by the dispatcher
Arrives(u) ==
    /\ Dispatchable(u)
    /\ budget > 0
    /\ budget' = budget - 1
    /\ active' = active
    /\ banned' = banned
    /\ probe' = probe
    /\ UNCHANGED <<now, progress_trackers, transfers>>

\* "raise StopPropagation" (line 104) can only stop the dispatch if the name
\* is bound in bot.py; line 10 imports Client and filters only, so the
\* statement raises NameError
StopPropagationImported == FALSE

\* check_ban, registered for messages in group -1: the dispatch of the
\* message stops.  For a banned user the notice is sent and line 104 runs;
\* its NameError is no stop signal, the dispatcher logs it and goes on to
\* the handlers of group 0.
check_ban(u) == u \in banned /\ StopPropagationImported

\* a message of u reaches its handler
MessageArrives(u) ==
    /\ Arrives(u)
    /\ ~check_ban(u)

\* a keyboard is stale once the session it was sent for left the table
MarkStale(u, kb) == {[k EXCEPT !.stale = (k.stale \/ k.user = u)] : k \in kb}

\* The process has just started.  The keyboard it sent for the first subtitle
\* of a session before it started is still in the chat of each user (a run in
\* which its buttons are not pressed is a run without it).
Start ==
    /\ user_sessions = [u \in Users |-> 0]
    /\ heap = <<>>
    /\ files = {}
    /\ handlers = <<>>
    /\ proc = NoProc
    /\ keyboards = {[user |-> u, idx |-> 0, stale |-> TRUE] : u \in active}
    /\ banned = {}
    /\ probe = NoProbe
    /\ now = Epoch
    /\ progress_trackers = NoTrackers
    /\ transfers = <<>>
    /\ ev = [op |-> "init", user |-> 0, reply |-> "", was |-> "none", idx |-> -1]

(* ------------------------- /start, /cancel ---------------------------- *)
start_handler_clears_table(u) ==
    /\ MessageArrives(u)
    /\ Update([v \in Users |-> IF v = u THEN NewId ELSE 0],
              Append(heap, UserSession), handlers)
    /\ keyboards' = MarkStale(u, keyboards)
    /\ ev' = Ev("start", u, "welcome")
    /\ UNCHANGED <<files, proc>>

start_handler(u) ==
    /\ MessageArrives(u)
    /\ Update([user_sessions EXCEPT ![u] = NewId],
              Append(heap, UserSession), handlers)
    /\ keyboards' = MarkStale(u, keyboards)
    /\ ev' = Ev("start", u, "welcome")
    /\ UNCHANGED <<files, proc>>

cancel_command_keeps_files(u) ==
    /\ MessageArrives(u)
    /\ IF user_sessions[u] # 0
       THEN /\ Update([user_sessions EXCEPT ![u] = NewId],
                      Append(heap, UserSession), handlers)
            /\ keyboards' = MarkStale(u, keyboards)
       ELSE UNCHANGED <<user_sessions, heap, handlers, keyboards>>
    /\ ev' = Ev("cancel", u, "cancelled")
    /\ UNCHANGED <<files, proc>>

cancel_command(u) ==
    /\ MessageArrives(u)
    /\ IF user_sessions[u] # 0
       THEN /\ files' = cleanup_user_files(u, files)
            /\ Update([user_sessions EXCEPT ![u] = NewId],
                      Append(heap, UserSession), handlers)
            /\ keyboards' = MarkStale(u, keyboards)
       ELSE UNCHANGED <<files, user_sessions, heap, handlers, keyboards>>
    /\ ev' = Ev("cancel", u, "cancelled")
    /\ UNCHANGED proc

(* ------------------------------ videos -------------------------------- *)
\* handle_video and handle_video_document up to the download
BeginVideo(u, name, kind) ==
    /\ MessageArrives(u)
    /\ LET s == NewId
       IN  /\ files' = cleanup_user_files(u, files)
           /\ Update([user_sessions EXCEPT ![u] = s],
                     Append(heap, [UserSession EXCEPT
                          !.file_name = name,
                          !.video_is_document = (kind = "video_document"),
                          !.via = kind]),
                     Append(handlers, [Handler EXCEPT
                          !.kind = kind, !.user = u, !.pc = "download",
                          !.sess = s, !.name = name,
                          !.path = VideoPath(u, name)]))
    /\ keyboards' = MarkStale(u, keyboards)
    /\ ev' = Ev(kind, u, "downloading_video")
    /\ UNCHANGED proc

handle_video(u, name) == BeginVideo(u, name, "video")

handle_video_document(u, name) == BeginVideo(u, name, "video_document")

VideoDownloadedPathOnly(session, video_path) ==
    [session EXCEPT !.video_path = video_path]

\* lines 414-416 and 569-571
VideoDownloaded(session, video_path) ==
    [session EXCEPT !.video_path = video_path, !.state = "waiting_for_subtitles"]

\* message.download returned or raised.  The videos of the model carry no
\* thumbnail (video.thumbs is empty), so lines 419-428 do nothing.
VideoDownloadReturn(h) ==
    /\ Resumes
    /\ h \in Slots
    /\ handlers[h].kind \in {"video", "video_document"}
    /\ handlers[h].pc = "download"
    /\ LET r == handlers[h] IN
       \/ /\ files' = files \cup {r.path}
          /\ Update(user_sessions,
                    [heap EXCEPT ![r.sess] = VideoDownloaded(@, r.path)],
                    [handlers EXCEPT ![h] = [@ EXCEPT !.pc = "ack"]])
          /\ ev' = Ev("video_downloaded", r.user, "")
       \/ /\ Update(user_sessions, heap, Remove(handlers, h))
          /\ ev' = Ev("video_failed", r.user, "error_downloading_video")
          /\ UNCHANGED files
    /\ UNCHANGED <<proc, keyboards>>

\* status_msg.delete() and the "Video received!" reply
VideoAck(h) ==
    /\ Resumes
    /\ h \in Slots
    /\ handlers[h].pc = "ack"
    /\ Update(user_sessions,
              [heap EXCEPT ![handlers[h].sess] = [@ EXCEPT !.acked = TRUE]],
              Remove(handlers, h))
    /\ ev' = Ev("video_ack", handlers[h].user, "video_received")
    /\ UNCHANGED <<files, proc, keyboards>>

(* ----------------------------- subtitles ------------------------------ *)
RejectDocument(u, reply) ==
    /\ ev' = Ev("document", u, reply)
    /\ UNCHANGED <<user_sessions, heap, files, handlers, proc, keyboards>>

AcceptsSubtitleIdle(u) == user_sessions[u] # 0

\* line 474
AcceptsSubtitle(u) ==
    /\ user_sessions[u] # 0
    /\ heap[user_sessions[u]].state = "waiting_for_subtitles"

\* handle_document up to the download of a subtitle.  The index in the name
\* of the file (line 484) is read here, with the session (line 478).
handle_document(u, name) ==
    /\ MessageArrives(u)
    /\ IF name = NoName THEN RejectDocument(u, "invalid_file")
       ELSE IF Suffix(name) \in video_extensions THEN handle_video_document(u, name)
       ELSE IF Suffix(name) \notin subtitle_extensions
       THEN RejectDocument(u, "unsupported_format")
       ELSE IF ~AcceptsSubtitle(u)
       THEN /\ ev' = Ev("subtitle", u, "send_video_first")
            /\ UNCHANGED <<user_sessions, heap, files, handlers, proc, keyboards>>
       ELSE /\ LET s == user_sessions[u]
                   n == Len(heap[s].subtitle_paths)
               IN  Update(user_sessions,
                          heap,
                          Append(handlers, [Handler EXCEPT
                              !.kind = "subtitle", !.user = u, !.pc = "download",
                              !.sess = s, !.name = name,
                              !.path = SubtitlePath(u, n, name),
                              !.tok = EventNo]))
            /\ ev' = [Ev("subtitle", u, "downloading_subtitle") EXCEPT
                          !.idx = Len(heap[user_sessions[u]].subtitle_paths)]
            /\ UNCHANGED <<files, proc, keyboards>>

AppendSubtitleEng(session, path, name, tok) ==
    [session EXCEPT
        !.subtitle_paths = Append(@, path),
        !.languages = Append(@, "eng"),
        !.titles = Append(@, Stem(name)),
        !.order = Append(@, tok)]

AppendSubtitleNoTitle(session, path, name, tok) ==
    [session EXCEPT
        !.subtitle_paths = Append(@, path),
        !.languages = Append(@, "und"),
        !.order = Append(@, tok),
        !.selected = Append(@, "none")]

\* lines 502-508: the session after the subtitle is appended to it
AppendSubtitle(session, path, name, tok) ==
    [session EXCEPT
        !.subtitle_paths = Append(@, path),
        !.languages = Append(@, "und"),
        !.titles = Append(@, Stem(name)),
        !.order = Append(@, tok),
        !.selected = Append(@, "none")]

new_subtitle_index_one_based(session) == Len(session.subtitle_paths) + 1

\* line 500: subtitle_index = len(session.subtitle_paths), before the appends
new_subtitle_index(session) == Len(session.subtitle_paths)

held_session_of_table(r) == user_sessions[r.user]

\* line 478: the session object the handler took from the table before its
\* first await, and uses from then on
held_session(r) == r.sess

\* message.download of the subtitle returned or raised
DocDownloadReturn(h) ==
    /\ Resumes
    /\ h \in Slots
    /\ handlers[h].kind = "subtitle"
    /\ handlers[h].pc = "download"
    /\ LET r == handlers[h] IN
       \/ /\ files' = files \cup {r.path}
          /\ Update(user_sessions,
                    [heap EXCEPT ![held_session(r)] =
                        AppendSubtitle(@, r.path, r.name, r.tok)],
                    [handlers EXCEPT ![h] = [@ EXCEPT
                        !.pc = "keyboard",
                        !.idx = new_subtitle_index(heap[held_session(r)])]])
          /\ ev' = [Ev("subtitle_downloaded", r.user, "") EXCEPT
                        !.idx = new_subtitle_index(heap[held_session(r)])]
       \/ /\ Update(user_sessions, heap, Remove(handlers, h))
          /\ ev' = Ev("subtitle_failed", r.user, "error_downloading_subtitle")
          /\ UNCHANGED files
    /\ UNCHANGED <<proc, keyboards>>

\* the reply that carries create_language_keyboard(subtitle_index), line 523
DocKeyboard(h) ==
    /\ Resumes
    /\ h \in Slots
    /\ handlers[h].pc = "keyboard"
    /\ LET r == handlers[h] IN
       /\ keyboards' = keyboards \cup
              {[user |-> r.user, idx |-> r.idx, stale |-> user_sessions[r.user] # r.sess]}
       /\ Update(user_sessions,
                 [heap EXCEPT ![r.sess] = [@ EXCEPT
                     !.pending_language_selections = @ \cup {r.idx}]],
                 Remove(handlers, h))
       /\ ev' = [Ev("subtitle_ack", r.user, "subtitle_received") EXCEPT !.idx = r.idx]
    /\ UNCHANGED <<files, proc>>

(* ------------------------ language selection -------------------------- *)
SetLanguageOfAll(session, subtitle_index, language_code) ==
    [session EXCEPT
        !.languages = [k \in DOMAIN @ |-> language_code],
        !.tagged = @ \cup {subtitle_index},
        !.selected = [@ EXCEPT ![subtitle_index + 1] = language_code]]

\* line 124
SetLanguage(session, subtitle_index, language_code) ==
    [session EXCEPT
        !.languages = [@ EXCEPT ![subtitle_index + 1] = language_code],
        !.tagged = @ \cup {subtitle_index},
        !.selected = [@ EXCEPT ![subtitle_index + 1] = language_code]]

InRangeLoose(subtitle_index, session) == subtitle_index <= Len(session.languages)

\* line 123
InRange(subtitle_index, session) == subtitle_index < Len(session.languages)

\* a button lang_<index>_<code> of a keyboard still in the chat is pressed;
\* a callback query is no message: check_ban does not see it
language_callback(u, kb, language_code) ==
    /\ Arrives(u)
    /\ kb \in keyboards
    /\ kb.user = u
    /\ LET subtitle_index == kb.idx IN
       IF user_sessions[u] = 0
       THEN /\ ev' = [Ev("language", u, "session_expired") EXCEPT
                          !.idx = subtitle_index]
            /\ UNCHANGED <<user_sessions, heap, handlers, keyboards>>
       ELSE IF InRange(subtitle_index, heap[user_sessions[u]])
       THEN /\ Update(user_sessions,
                      [heap EXCEPT ![user_sessions[u]] =
                          SetLanguage(@, subtitle_index, language_code)],
                      handlers)
            \* edit_message_text drops the keyboard, unless the edit fails
            /\ \/ keyboards' = keyboards \ {kb}
               \/ keyboards' = keyboards
            /\ ev' = [Ev("language", u, "language_set") EXCEPT
                          !.idx = subtitle_index]
       ELSE /\ ev' = [Ev("language", u, "invalid_index") EXCEPT
                          !.idx = subtitle_index]
            /\ UNCHANGED <<user_sessions, heap, handlers, keyboards>>
    /\ UNCHANGED <<files, proc>>

(* -------------------------------- /done ------------------------------- *)
RejectDone(u, reply) ==
    /\ ev' = Ev("done", u, reply)
    /\ UNCHANGED <<user_sessions, heap, files, handlers, proc, keyboards>>

HasSubtitlesAlways(session) == TRUE

\* line 243
HasSubtitles(session) == session.subtitle_paths # <<>>

\* done_command up to the "Processing your video" reply
done_command(u) ==
    /\ MessageArrives(u)
    /\ IF user_sessions[u] = 0 THEN RejectDone(u, "send_video_first")
       ELSE IF heap[user_sessions[u]].state # "waiting_for_subtitles"
       THEN RejectDone(u, "send_video_first")
       ELSE IF ~HasSubtitles(heap[user_sessions[u]])
       THEN RejectDone(u, "send_subtitle_first")
       ELSE /\ Update(user_sessions, heap,
                      Append(handlers, [Handler EXCEPT
                          !.kind = "done", !.user = u, !.pc = "processing",
                          !.sess = user_sessions[u]]))
            /\ ev' = Ev("done", u, "processing")
            /\ UNCHANGED <<files, proc, keyboards>>

PreconditionsVideoOnly(video_file, subtitle_files, fs, dir_ok) ==
    /\ video_file \in fs
    /\ dir_ok

\* the validation phase of embed_multiple_subtitles, lines 203-248
Preconditions(video_file, subtitle_files, fs, dir_ok) ==
    /\ video_file \in fs
    /\ subtitle_files # <<>>
    /\ \A k \in 1..Len(subtitle_files) : subtitle_files[k] \in fs
    /\ dir_ok

ProbeCommand(video_file) ==
    <<Arg("ffprobe"), Arg("-v"), Arg("quiet"), Arg("-print_format"), Arg("json"),
      Arg("-show_format"), Arg("-show_streams"), ArgV("path", video_file)>>

\* the call of embed_multiple_subtitles: validation, then the pre-flight
\* get_stream_count, whose subprocess.run blocks the event loop
DoneEmbedBegin(h) ==
    /\ Resumes
    /\ h \in Slots
    /\ handlers[h].kind = "done"
    /\ handlers[h].pc = "processing"
    /\ LET r == handlers[h]
           session == heap[r.sess]
           output_file == OutputPath(r.user, session.video_path)
       IN  \E dir_ok \in BOOLEAN :
           IF Preconditions(session.video_path, session.subtitle_paths, files, dir_ok)
           THEN /\ proc' = [kind |-> "ffprobe", slot |-> h,
                            cmd |-> ProbeCommand(session.video_path)]
                /\ Update(user_sessions, heap,
                          [handlers EXCEPT ![h] = [@ EXCEPT
                              !.pc = "probe_pre", !.path = output_file]])
                /\ ev' = Ev("embed_begin", r.user, "dir_ok")
           ELSE /\ proc' = proc
                /\ Update(user_sessions, heap,
                          [handlers EXCEPT ![h] = [@ EXCEPT
                              !.pc = "final", !.res = "failed", !.path = output_file]])
                /\ ev' = Ev("embed_refused", r.user,
                            IF dir_ok THEN "dir_ok" ELSE "dir_unusable")
    /\ UNCHANGED <<files, keyboards>>

\* what ffprobe can do once started: exit non-zero, run into the timeout,
\* or exit 0 and print text that is not JSON, JSON of another shape than
\* {"streams": [{"codec_type": ...}, ...]}, or the streams of the file, with
\* as many subtitle streams as were requested or another number
ProbeOutcomes ==
    {"nonzero", "timeout", "not_json", "wrong_shape", "streams", "streams_mismatch"}

\* get_video_info: None, or the parsed output
get_video_info(exists, outcome) ==
    IF ~exists THEN "None"
    ELSE IF outcome \in {"nonzero", "timeout", "not_json"} THEN "None"
    ELSE outcome

\* get_stream_count: None, the counts, or the exception of info.get /
\* stream.get on parsed output of another shape
get_stream_count(exists, outcome) ==
    LET info == get_video_info(exists, outcome) IN
    IF info = "None" THEN "None"
    ELSE IF info = "wrong_shape" THEN "raises"
    ELSE IF info = "streams" THEN "counts"
    ELSE "mismatch"

\* the pre-flight probe returned (counts or None: logged only); the command
\* is built and subprocess.run(cmd, timeout=3600) starts.  An exception of
\* get_stream_count leaves embed_multiple_subtitles for done_command's except.
ProbePreReturn(h) ==
    /\ h \in Slots
    /\ proc.kind = "ffprobe"
    /\ proc.slot = h
    /\ UNCHANGED <<active, budget, banned, probe, now, progress_trackers, transfers>>
    /\ handlers[h].pc = "probe_pre"
    /\ LET r == handlers[h]
           session == heap[r.sess]
       IN  \E outcome \in ProbeOutcomes :
           /\ IF get_stream_count(session.video_path \in files, outcome) = "raises"
              THEN /\ proc' = NoProc
                   /\ Update(user_sessions, heap,
                             [handlers EXCEPT ![h] = [@ EXCEPT
                                 !.pc = "final", !.res = "raised"]])
              ELSE /\ proc' = [kind |-> "ffmpeg", slot |-> h,
                               cmd |-> BuildCommand(session.video_path,
                                                    session.subtitle_paths, r.path,
                                                    session.languages, session.titles)]
                   /\ Update(user_sessions, heap,
                             [handlers EXCEPT ![h] = [@ EXCEPT !.pc = "remux"]])
           /\ ev' = Ev("probe_pre", r.user, outcome)
    /\ UNCHANGED <<files, keyboards>>

RemuxOutcomes == {"exit0", "nonzero", "timeout", "exception"}

OutputVerifiedExitOnly(outcome, exists) == outcome = "exit0"

\* lines 409-411: returncode 0 and the output file exists
OutputVerified(outcome, exists) == outcome = "exit0" /\ exists

\* what embed_multiple_subtitles returns for a remux that was not verified:
\* return False at lines 433, 447, 453 and 463
RemuxFailure(outcome) == "failed"

\* ffmpeg ended; lines 409-463
FfmpegReturn(h) ==
    /\ h \in Slots
    /\ proc.kind = "ffmpeg"
    /\ proc.slot = h
    /\ UNCHANGED <<active, budget, banned, probe, now, progress_trackers, transfers>>
    /\ handlers[h].pc = "remux"
    /\ LET r == handlers[h] IN
       \E outcome \in RemuxOutcomes, wrote \in BOOLEAN :
           /\ (outcome = "exception") => ~wrote
           /\ files' = IF wrote THEN files \cup {r.path} ELSE files
           /\ IF OutputVerified(outcome, r.path \in files')
              THEN /\ proc' = [kind |-> "ffprobe", slot |-> h,
                               cmd |-> ProbeCommand(r.path)]
                   /\ Update(user_sessions, heap,
                             [handlers EXCEPT ![h] = [@ EXCEPT !.pc = "probe_post"]])
              ELSE /\ proc' = NoProc
                   /\ Update(user_sessions, heap,
                             [handlers EXCEPT ![h] = [@ EXCEPT
                                 !.pc = "final", !.res = RemuxFailure(outcome)]])
           /\ ev' = Ev("ffmpeg_return", r.user, outcome)
    /\ UNCHANGED keyboards

\* the post-flight probe returned, lines 417-426: embed_multiple_subtitles
\* returns True, or False from "except Exception" (line 463) when
\* get_stream_count raised
ProbePostReturn(h) ==
    /\ h \in Slots
    /\ proc.kind = "ffprobe"
    /\ proc.slot = h
    /\ UNCHANGED <<active, budget, banned, probe, now, progress_trackers, transfers>>
    /\ handlers[h].pc = "probe_post"
    /\ proc' = NoProc
    /\ LET r == handlers[h] IN
       \E outcome \in ProbeOutcomes :
           /\ IF get_stream_count(r.path \in files, outcome) = "raises"
              THEN Update(user_sessions, heap,
                          [handlers EXCEPT ![h] = [@ EXCEPT
                              !.pc = "final", !.res = RemuxFailure("exception")]])
              ELSE Update(user_sessions, heap,
                          [handlers EXCEPT ![h] = [@ EXCEPT !.pc = "upload"]])
           /\ ev' = Ev("probe_post", r.user, outcome)
    /\ UNCHANGED <<files, keyboards>>

DeliverAsVideo(session) == "send_video"

\* lines 308-329: send_document or send_video
DeliverAs(session) ==
    IF session.video_is_document THEN "send_document" ELSE "send_video"

\* lines 270-336: the result is sent, or something on the way raises
DoneUploadReturn(h) ==
    /\ Resumes
    /\ h \in Slots
    /\ handlers[h].pc = "upload"
    /\ LET r == handlers[h]
           session == heap[r.sess]
       IN  \E raised \in BOOLEAN :
           /\ (r.path \notin files) => raised
           /\ Update(user_sessions, heap,
                     [handlers EXCEPT ![h] = [@ EXCEPT
                         !.pc = "final",
                         !.res = IF raised THEN "raised" ELSE "sent"]])
           /\ ev' = Ev("upload_return", r.user,
                       IF raised THEN "error" ELSE DeliverAs(session))
    /\ UNCHANGED <<files, proc, keyboards>>

DoneFinallyKeepsSession(h) ==
    /\ Resumes
    /\ h \in Slots
    /\ handlers[h].pc = "final"
    /\ LET r == handlers[h] IN
       /\ files' = cleanup_user_files(r.user, files)
       /\ Update(user_sessions, heap, Remove(handlers, h))
       /\ keyboards' = keyboards
       /\ ev' = Ev("done_finally", r.user, r.res)
    /\ UNCHANGED proc

\* the last message of done_command, then lines 266 and 342-345
DoneFinally(h) ==
    /\ Resumes
    /\ h \in Slots
    /\ handlers[h].pc = "final"
    /\ LET r == handlers[h] IN
       /\ files' = cleanup_user_files(r.user, files)
       /\ Update([user_sessions EXCEPT ![r.user] = NewId],
                 Append(heap, UserSession),
                 Remove(handlers, h))
       /\ keyboards' = MarkStale(r.user, keyboards)
       /\ ev' = Ev("done_finally", r.user, r.res)
    /\ UNCHANGED proc

Next ==
    \/ \E u \in Users : start_handler(u)
    \/ \E u \in Users : cancel_command(u)
    \/ \E u \in Users : done_command(u)
    \/ \E u \in Users, name \in VideoNames : handle_video(u, name)
    \/ \E u \in Users, name \in DocNames : handle_document(u, name)
    \/ \E u \in Users, kb \in keyboards, c \in LangCodes : language_callback(u, kb, c)
    \/ \E h \in Slots : VideoDownloadReturn(h)
    \/ \E h \in Slots : VideoAck(h)
    \/ \E h \in Slots : DocDownloadReturn(h)
    \/ \E h \in Slots : DocKeyboard(h)
    \/ \E h \in Slots : DoneEmbedBegin(h)
    \/ \E h \in Slots : ProbePreReturn(h)
    \/ \E h \in Slots : FfmpegReturn(h)
    \/ \E h \in Slots : ProbePostReturn(h)
    \/ \E h \in Slots : DoneUploadReturn(h)
    \/ \E h \in Slots : DoneFinally(h)

\* one user sends MaxEvents events
Init ==
    /\ active = {UserSeq[1]}
    /\ budget = MaxEvents
    /\ Start

Spec == Init /\ [][Next]_vars

\* every user may send events, MaxEvents - 1 in all
InitAll ==
    /\ active = Users
    /\ budget = MaxEvents - 1
    /\ Start

SpecAll == InitAll /\ [][Next]_vars

\* Every await returns: a download or an upload ends or raises, a subprocess
\* ends or is timed out, and the event loop resumes the handler.
HandlerStep(h) ==
    \/ VideoDownloadReturn(h) \/ VideoAck(h)
    \/ DocDownloadReturn(h) \/ DocKeyboard(h)
    \/ DoneEmbedBegin(h) \/ ProbePreReturn(h) \/ FfmpegReturn(h)
    \/ ProbePostReturn(h) \/ DoneUploadReturn(h) \/ DoneFinally(h)

\* one user sends MaxEvents - 1 events
InitFair ==
    /\ active = {UserSeq[1]}
    /\ budget = MaxEvents - 1
    /\ Start

FairSpec == InitFair /\ [][Next]_vars /\ WF_vars(\E h \in Slots : HandlerStep(h))

(* -------------------------------- bans -------------------------------- *)
\* an admin's /ban <u>: db.ban_user sets the flag of u
ban_command(u) ==
    /\ LoopFree
    /\ u \in active
    /\ u \notin banned
    /\ banned' = banned \cup {u}
    /\ ev' = Ev("ban", u, "user_banned")
    /\ UNCHANGED <<user_sessions, heap, files, handlers, proc, keyboards, active, budget,
                   probe, now, progress_trackers, transfers>>

NextBan ==
    \/ Next
    \/ \E u \in Users : ban_command(u)

\* one user sends MaxEvents - 1 events and is banned at some moment
SpecBan == InitFair /\ [][NextBan]_vars

(* ---------------- embed_multiple_subtitles on any input --------------- *)
MaxSubs == 2
EmbedExts == {".mp4", ".m4v", ".mkv", ".webm", ".avi"}
SubFormats == UNION {[1..n -> subtitle_extensions] : n \in 0..MaxSubs}

\* the session of user u with a video of extension ext and the subtitles
\* n.. of the formats fmts
RECURSIVE SessionWith(_, _, _, _)
SessionWith(u, ext, fmts, n) ==
    IF n = 0 THEN VideoDownloaded(UserSession, VideoPath(u, FileName("v", ext)))
    ELSE AppendSubtitle(SessionWith(u, ext, fmts, n - 1),
                        SubtitlePath(u, n - 1, FileName("a", fmts[n])),
                        FileName("a", fmts[n]), n)

\* done_command is about to call embed_multiple_subtitles (line 256) with a
\* video of any container, any list of at most MaxSubs subtitles, and any of
\* these files on disk or missing; no other event arrives during the call
InitEmbed ==
    /\ active = {UserSeq[1]}
    /\ budget = 0
    /\ \E ext \in EmbedExts, fmts \in SubFormats :
           LET session == SessionWith(UserSeq[1], ext, fmts, Len(fmts)) IN
           /\ heap = <<session>>
           /\ files \in SUBSET ({session.video_path} \cup Range(session.subtitle_paths))
    /\ user_sessions = [u \in Users |-> IF u = UserSeq[1] THEN 1 ELSE 0]
    /\ handlers = <<[Handler EXCEPT !.kind = "done", !.user = UserSeq[1],
                                    !.pc = "processing", !.sess = 1]>>
    /\ proc = NoProc
    /\ keyboards = {[user |-> UserSeq[1], idx |-> 0, stale |-> TRUE]}
    /\ banned = {}
    /\ probe = NoProbe
    /\ now = Epoch
    /\ progress_trackers = NoTrackers
    /\ transfers = <<>>
    /\ ev = [op |-> "done", user |-> UserSeq[1], reply |-> "processing",
             was |-> "waiting_for_subtitles", idx |-> -1]

\* the call, from its validation to its return
NextEmbed ==
    \/ \E h \in Slots : DoneEmbedBegin(h)
    \/ \E h \in Slots : ProbePreReturn(h)
    \/ \E h \in Slots : FfmpegReturn(h)
    \/ \E h \in Slots : ProbePostReturn(h)

SpecEmbed == InitEmbed /\ [][NextEmbed]_vars

(* ------------------------- reading a command -------------------------- *)
\* the arguments that follow an argument equal to opt, in order
RECURSIVE After(_, _)
After(cmd, opt) ==
    IF Len(cmd) < 2 THEN <<>>
    ELSE IF cmd[1] = opt THEN <<cmd[2]>> \o After(Tail(Tail(cmd)), opt)
    ELSE After(Tail(cmd), opt)

\* the paths of the inputs 1.. of the command (input 0 is the video)
SubtitleInputs(cmd) ==
    LET ins == After(cmd, Arg("-i")) IN [k \in 1..(Len(ins) - 1) |-> ins[k + 1].v]
\* the input numbers mapped with "-map <n>"
MappedInputs(cmd) ==
    LET maps == SelectSeq(After(cmd, Arg("-map")), LAMBDA a : a.t = "input")
    IN  [k \in 1..Len(maps) |-> maps[k].i]
\* the languages the command attaches to subtitle track i
TrackLanguages(cmd, i) ==
    {a.v[1] : a \in {b \in Range(After(cmd, ArgN("-metadata:s:s:", i))) : b.t = "language="}}

\* the titles the command attaches to subtitle track i
TrackTitles(cmd, i) ==
    {a.v[1] : a \in {b \in Range(After(cmd, ArgN("-metadata:s:s:", i))) : b.t = "title="}}

Session(u) == heap[user_sessions[u]]
HasSession(u) == user_sessions[u] # 0
\* the session of the finalize that the running remux belongs to
RemuxSession == heap[handlers[proc.slot].sess]

(* ------------------------------ claims -------------------------------- *)

\* C1: at finalize the new subtitle inputs of the remux command are mapped in
\* the order in which the subtitles were uploaded (the upload events arrived).
C1_TrackOrderIsUploadOrder ==
    proc.kind = "ffmpeg" =>
        LET session == RemuxSession
            n == Len(session.subtitle_paths)
        IN  /\ SubtitleInputs(proc.cmd) = session.subtitle_paths
            /\ MappedInputs(proc.cmd) = [k \in 1..n |-> k]
            /\ \A i, j \in 1..n : i < j => session.order[i] < session.order[j]

\* C2: a video upload received while the session collects subtitles leaves
\* a session with no subtitles (the next one gets index 0) and none of the
\* subtitle files on disk.
C2_NewVideoDiscardsSubtitles ==
    (ev.op \in {"video", "video_document"} /\ ev.was \in {"waiting_for_subtitles", "collected"}) =>
        /\ HasSession(ev.user)
        /\ Session(ev.user).subtitle_paths = <<>>
        /\ Session(ev.user).languages = <<>>
        /\ Session(ev.user).titles = <<>>
        /\ \A n \in 0..MaxEvents, name \in SubNames :
               SubtitlePath(ev.user, n, name) \notin files

C2_Witness ==
    /\ ev.op \in {"video", "video_document"}
    /\ ev.was = "collected"

\* C3: /done in collecting_subtitles with no subtitle is rejected and changes
\* nothing: the table, every session, the files, the handlers in flight and
\* the subprocess are as before.
C3_DoneWithoutSubtitlesRejected ==
    [][\A u \in Users :
        (/\ ev'.op = "done" /\ ev'.user = u
         /\ HasSession(u)
         /\ Session(u).state = "waiting_for_subtitles"
         /\ Session(u).subtitle_paths = <<>>)
        => /\ ev'.reply = "send_subtitle_first"
           /\ UNCHANGED <<user_sessions, heap, files, handlers, proc, keyboards>>]_vars

C3_Witness ==
    /\ ev.op = "done"
    /\ ev.reply = "send_subtitle_first"
    /\ HasSession(ev.user)
    /\ Session(ev.user).state = "waiting_for_subtitles"
    /\ Session(ev.user).video_path # NoPath

\* C4: a language selection whose index is at least the number of subtitles
\* of the user's session is rejected and changes no session (no language, no
\* title).
C4_OutOfRangeSelectionRejected ==
    [][\A u \in Users :
        (/\ ev'.op = "language" /\ ev'.user = u
         /\ HasSession(u)
         /\ ev'.idx >= Len(Session(u).subtitle_paths))
        => /\ ev'.reply = "invalid_index"
           /\ UNCHANGED <<user_sessions, heap>>]_vars

C4_Witness ==
    /\ ev.op = "language"
    /\ ev.reply = "invalid_index"
    /\ ev.idx >= Len(Session(ev.user).subtitle_paths)

\* C5: with no session or an idle one, a subtitle upload and /done are
\* rejected with the guidance message and change nothing; the state of the
\* user's session leaves idle only when a video download has completed.
C5_IdleRejectsAllButVideo ==
    [][\A u \in Users :
        /\ (/\ ev'.op \in {"subtitle", "done"} /\ ev'.user = u
            /\ (HasSession(u) => Session(u).state = "idle"))
           => /\ ev'.reply = "send_video_first"
              /\ UNCHANGED <<user_sessions, heap, files, handlers, proc, keyboards>>
        /\ (/\ HasSession(u) => Session(u).state = "idle"
            /\ user_sessions'[u] # 0
            /\ heap'[user_sessions'[u]].state # "idle")
           => ev'.op = "video_downloaded" /\ ev'.user = u]_vars

C5_Witness ==
    /\ ev.op = "subtitle"
    /\ ev.reply = "send_video_first"
    /\ ev.was = "idle"

\* the finalize of u has ended and left a fresh idle session and no file
Finalized(u) ==
    /\ ev.op = "done_finally" /\ ev.user = u
    /\ HasSession(u)
    /\ Session(u) = UserSession
    /\ UserFiles(u, files) = {}

DoneInFlight(u) == \E h \in Slots : handlers[h].kind = "done" /\ handlers[h].user = u

C7_UntaggedIsUndAndEmbedded ==
    /\ (ev.op = "done" /\ ev.was = "collected") => ev.reply = "processing"
    /\ proc.kind = "ffmpeg" =>
           \A i \in 0..(Len(RemuxSession.subtitle_paths) - 1) :
               i \notin RemuxSession.tagged =>
                   /\ TrackLanguages(proc.cmd, i) = {"und"}
                   /\ i + 1 \in Range(MappedInputs(proc.cmd))
                   /\ SubtitleInputs(proc.cmd)[i + 1] = RemuxSession.subtitle_paths[i + 1]

C7_Witness ==
    /\ proc.kind = "ffmpeg"
    /\ RemuxSession.subtitle_paths # <<>>
    /\ RemuxSession.tagged = {}
    /\ RemuxSession.pending_language_selections # {}

\* C8: a language selection whose index is not in the user's current session
\* (the session it was sent for was replaced, or there is none) is answered
\* "session expired", and with nothing else.
C8_StaleSelectionSaysExpired ==
    (/\ ev.op = "language"
     /\ HasSession(ev.user) => ev.idx >= Len(Session(ev.user).subtitle_paths))
    => ev.reply = "session_expired"

\* C9: no two handlers of the same user are in flight at the same time.
C9_OneHandlerPerUser ==
    \A h1, h2 \in Slots : h1 # h2 => handlers[h1].user # handlers[h2].user

LongRunning == {"download", "probe_pre", "remux", "probe_post", "upload"}

\* C10: while a download, a remux, a probe or an upload of one user is in
\* progress, an event of another user can be taken up.
C10_OthersNotBlocked ==
    \A h \in Slots : handlers[h].pc \in LongRunning =>
        \A u \in Users \ {handlers[h].user} : Dispatchable(u)

\* the session the table holds for u is torn down: idle, no video, no
\* subtitle, and no file of u is on disk
TornDown(u) ==
    /\ HasSession(u)
    /\ Session(u).state = "idle"
    /\ Session(u).video_path = NoPath
    /\ Session(u).subtitle_paths = <<>>
    /\ UserFiles(u, files) = {}

\* a handler of u has just reported a failure of its event: a download that
\* raised, or a build or remux that returned False
FailureReported(u) ==
    /\ ev.user = u
    /\ \/ ev.op \in {"video_failed", "subtitle_failed"}
       \/ ev.op = "done_finally" /\ ev.reply = "failed"

\* handler h is the only handler of its user, it works on the session the
\* table holds, and the user's files are the ones that session names
Undisturbed(h) ==
    LET u == handlers[h].user IN
    /\ \A k \in Slots : k # h => handlers[k].user # u
    /\ user_sessions[u] = handlers[h].sess
    /\ UserFiles(u, files) \subseteq
           ({Session(u).video_path} \cup Range(Session(u).subtitle_paths))

\* C11: a step in which a handler reports the failure of its event (no
\* other handler of the user having interfered) leaves the user's session
\* torn down: idle, no video, no subtitles, no files.
C11_FailureTearsDown ==
    [][\A h \in Slots, u \in Users :
        (handlers[h].user = u /\ Undisturbed(h) /\ FailureReported(u)')
        => TornDown(u)']_vars

\* C12: right after /cancel was handled for a user whose session was
\* collecting subtitles, the user's session is a fresh idle one and no
\* file of the user is in the download or the output directory.
C12_CancelReleasesSession ==
    (ev.op = "cancel" /\ ev.was \in {"waiting_for_subtitles", "collected"}) =>
        /\ HasSession(ev.user)
        /\ Session(ev.user) = UserSession
        /\ UserFiles(ev.user, files) = {}

C12_Witness ==
    /\ ev.op = "cancel"
    /\ ev.was = "collected"
    /\ Session(ev.user) = UserSession

\* C13: a step of a handler of one user leaves the table entry of every
\* other user, and every field of the session it holds, as they were.
C13_OtherUsersUntouched ==
    [][\A u \in Users :
        ev'.user # u =>
            /\ (user_sessions'[u] = 0) <=> (user_sessions[u] = 0)
            /\ user_sessions[u] # 0 =>
                   heap'[user_sessions'[u]] = heap[user_sessions[u]]]_vars

C13_Witness ==
    /\ ev.user = UserSeq[1]
    /\ ev.op = "video_downloaded"
    /\ HasSession(UserSeq[2])
    /\ Session(UserSeq[2]).video_path # NoPath
    /\ \E h \in Slots : handlers[h].user = UserSeq[2]

\* every path a handler can generate for user u
GeneratedFor(u) ==
    {VideoPath(u, name) : name \in VideoNames}
    \cup {SubtitlePath(u, n, name) : n \in 0..MaxEvents, name \in SubNames}
    \cup {ThumbPath(u)}
    \cup {OutputPath(u, VideoPath(u, name)) : name \in VideoNames}

\* C14: for distinct users a and b no path generated for a is a path
\* generated for b, and cleanup for a deletes no path generated for b,
\* neither of those on disk nor of any other (1 is a prefix of 11).
C14_PathsNamespacedByUser ==
    \A a, b \in Users : a # b =>
        /\ GeneratedFor(a) \cap GeneratedFor(b) = {}
        /\ cleanup_user_files(a, GeneratedFor(b)) = GeneratedFor(b)
        /\ files \cap GeneratedFor(b) \subseteq cleanup_user_files(a, files)

C14_Witness ==
    /\ ev.op = "cancel"
    /\ ev.user = UserSeq[1]
    /\ ev.was = "waiting_for_subtitles"
    /\ UserFiles(UserSeq[1], files) = {}
    /\ files \cap GeneratedFor(UserSeq[2]) # {}

\* C15: cleanup_user_files deletes every file of the user and nothing else,
\* so a second run changes nothing, and a run for a user none of whose
\* files is on disk changes nothing.
C15_CleanupIdempotent ==
    \A u \in Users :
        LET once == cleanup_user_files(u, files) IN
        /\ once \subseteq files
        /\ cleanup_user_files(u, once) = once
        /\ (\A p \in files : ~(GlobMatch(DOWNLOAD_DIR, u, p) \/ GlobMatch(OUTPUT_DIR, u, p)))
               => once = files

C15_Witness ==
    /\ ev.op = "cancel"
    /\ ev.was = "idle"
    /\ HasSession(ev.user)
    /\ files = {}

\* C16: when the remux exits 0 and no file is at the output path, the
\* finalize is told of a failure: it goes to its error report, starts no
\* post-flight probe and never reaches the upload.
C16_MissingOutputIsFailure ==
    [][\A h \in Slots :
        (/\ proc.kind = "ffmpeg"
         /\ proc.slot = h
         /\ ev'.op = "ffmpeg_return"
         /\ ev'.reply = "exit0"
         /\ handlers[h].path \notin files')
        => /\ proc' = NoProc
           /\ handlers'[h].pc = "final"
           /\ handlers'[h].res = "failed"]_vars

C16_Witness ==
    /\ ev.op = "ffmpeg_return"
    /\ ev.reply = "exit0"
    /\ proc = NoProc
    /\ \E h \in Slots :
           /\ handlers[h].pc = "final"
           /\ handlers[h].res = "failed"
           /\ handlers[h].path \notin files

\* C17: the result reported for a remux that ran into the timeout differs
\* from the result reported for a remux that exited with a non-zero code.
C17_TimeoutIsDistinct ==
    [][\A h \in Slots :
        (/\ proc.kind = "ffmpeg"
         /\ proc.slot = h
         /\ ev'.op = "ffmpeg_return"
         /\ ev'.reply = "timeout")
        => handlers'[h].res # RemuxFailure("nonzero")]_vars

\* C18: whatever the probes do, a remux that exits 0 and leaves its output
\* is a success: after the pre-flight probe the remux starts, and after the
\* post-flight probe the finalize goes on to deliver the output.
C18_ProbeNeverFailsJob ==
    [][\A h \in Slots :
        /\ (proc.slot = h /\ ev'.op = "probe_pre")
               => (proc'.kind = "ffmpeg" /\ handlers'[h].pc = "remux")
        /\ (proc.slot = h /\ ev'.op = "probe_post")
               => handlers'[h].pc = "upload"]_vars

\* C19: when the video is missing, the subtitle list is empty, a subtitle
\* is missing or the output directory cannot be used, the call of
\* embed_multiple_subtitles fails and starts no process, probe or remux.
C19_PreconditionFailureSpawnsNothing ==
    [][\A h \in Slots :
        LET session == heap[handlers[h].sess] IN
        (/\ handlers[h].pc = "processing"
         /\ ev'.op \in {"embed_begin", "embed_refused"}
         /\ handlers'[h].pc # "processing"
         /\ \/ session.video_path \notin files
            \/ session.subtitle_paths = <<>>
            \/ \E k \in DOMAIN session.subtitle_paths : session.subtitle_paths[k] \notin files
            \/ ev'.reply = "dir_unusable")
        => /\ proc' = NoProc
           /\ handlers'[h].pc = "final"
           /\ handlers'[h].res = "failed"]_vars

C19_Witness ==
    /\ ev.op = "embed_refused"
    /\ ev.reply = "dir_ok"
    /\ proc = NoProc
    /\ \E h \in Slots :
           /\ handlers[h].pc = "final"
           /\ handlers[h].res = "failed"
           /\ heap[handlers[h].sess].subtitle_paths = <<>>
           /\ heap[handlers[h].sess].video_path \in files

\* C20: the command built for an .mp4 or .m4v video and N >= 1 subtitles
\* of any formats sets the codec mov_text for all subtitle tracks and names
\* no ass codec, takes the N subtitles as inputs 1..N and maps exactly
\* these, and marks track 0 default and every other track non-default.
C20_Mp4CommandShape ==
    (proc.kind = "ffmpeg"
        /\ RemuxSession.video_path[Len(RemuxSession.video_path)] \in {".mp4", ".m4v"})
    => LET cmd == proc.cmd
           subs == RemuxSession.subtitle_paths
       IN  /\ Len(subs) >= 1
           /\ After(cmd, Arg("-c:s")) = <<Arg("mov_text")>>
           /\ \A k \in DOMAIN cmd : cmd[k] # Arg("ass") /\ cmd[k].t # "-c:s:"
           /\ SubtitleInputs(cmd) = subs
           /\ MappedInputs(cmd) = [k \in 1..Len(subs) |-> k]
           /\ \A k \in 1..Len(subs) :
                  After(cmd, ArgN("-disposition:s:", k - 1))
                      = <<IF k = 1 THEN Arg("default") ELSE Arg("0")>>

C20_Witness ==
    /\ proc.kind = "ffmpeg"
    /\ LET video_path == RemuxSession.video_path
           subs == RemuxSession.subtitle_paths
       IN  /\ video_path[Len(video_path)] = ".mp4"
           /\ Len(subs) = 2
           /\ subs[1][Len(subs[1])] = ".srt"
           /\ subs[2][Len(subs[2])] = ".ass"

\* C21: in the command for an .mkv or .webm video, track i has the codec
\* ass exactly when subtitle i is an .ass or .ssa file and srt otherwise;
\* for a video of neither the mp4 nor the mkv family all tracks get srt.
C21_CodecByContainer ==
    proc.kind = "ffmpeg" =>
        LET cmd == proc.cmd
            subs == RemuxSession.subtitle_paths
            video_ext == RemuxSession.video_path[Len(RemuxSession.video_path)]
            PerTrack == \E k \in DOMAIN cmd : cmd[k].t = "-c:s:"
        IN  /\ video_ext \in {".mkv", ".webm"} =>
                /\ After(cmd, Arg("-c:s")) = <<>>
                /\ \A k \in 1..Len(subs) :
                       After(cmd, ArgN("-c:s:", k - 1)) =
                           <<IF subs[k][Len(subs[k])] \in {".ass", ".ssa"}
                             THEN Arg("ass") ELSE Arg("srt")>>
            /\ video_ext \notin {".mp4", ".m4v", ".mkv", ".webm"} =>
                /\ After(cmd, Arg("-c:s")) = <<Arg("srt")>>
                /\ ~PerTrack

C21_Witness ==
    /\ proc.kind = "ffmpeg"
    /\ RemuxSession.video_path[Len(RemuxSession.video_path)] = ".mkv"
    /\ Len(RemuxSession.subtitle_paths) = 2
    /\ RemuxSession.subtitle_paths[1][Len(RemuxSession.subtitle_paths[1])] = ".ssa"
    /\ RemuxSession.subtitle_paths[2][Len(RemuxSession.subtitle_paths[2])] = ".vtt"
    /\ After(proc.cmd, ArgN("-c:s:", 0)) = <<Arg("ass")>>

\* C22: the mappings of the command are, in this order, the video streams
\* of the source, its audio streams, then the subtitle inputs in the order
\* of the session's list; nothing maps a subtitle stream of the source,
\* and video and audio are copied.
C22_MappingOrder ==
    proc.kind = "ffmpeg" =>
        LET cmd == proc.cmd
            subs == RemuxSession.subtitle_paths
        IN  /\ After(cmd, Arg("-i"))[1] = ArgV("path", RemuxSession.video_path)
            /\ SubtitleInputs(cmd) = subs
            /\ After(cmd, Arg("-map")) =
                   <<Arg("0:v?"), Arg("0:a?")>>
                   \o [k \in 1..Len(subs) |-> ArgN("input", k)]
            /\ After(cmd, Arg("-c:v")) = <<Arg("copy")>>
            /\ After(cmd, Arg("-c:a")) = <<Arg("copy")>>

C22_Witness ==
    /\ proc.kind = "ffmpeg"
    /\ Len(RemuxSession.subtitle_paths) = 2
    /\ RemuxSession.subtitle_paths[1] # RemuxSession.subtitle_paths[2]
    /\ Len(After(proc.cmd, Arg("-map"))) = 4

\* the options that shift the output to start at zero or make negative
\* timestamps zero
TimestampOptions == {"-avoid_negative_ts", "-start_at_zero", "make_zero"}

\* C24: every remux command has "-sub_charenc UTF-8" before each subtitle
\* input and carries an option that normalizes the timestamps.
C24_Utf8AndTimestampOptions ==
    proc.kind = "ffmpeg" =>
        LET cmd == proc.cmd IN
        /\ \A k \in DOMAIN cmd :
               (cmd[k] = Arg("-i") /\ cmd[k + 1].v # RemuxSession.video_path)
               => (k > 2 /\ cmd[k - 2] = Arg("-sub_charenc") /\ cmd[k - 1] = Arg("UTF-8"))
        /\ \E k \in DOMAIN cmd : cmd[k].t \in TimestampOptions

\* the first half of C24 alone
C24_Utf8OnEveryInput ==
    proc.kind = "ffmpeg" =>
        \A k \in DOMAIN proc.cmd :
            (proc.cmd[k] = Arg("-i") /\ proc.cmd[k + 1].v # RemuxSession.video_path)
            => (k > 2 /\ proc.cmd[k - 2] = Arg("-sub_charenc")
                      /\ proc.cmd[k - 1] = Arg("UTF-8"))

C23_WitnessOther ==
    /\ ev.op = "language"
    /\ ev.reply = "language_set"
    /\ HasSession(ev.user)
    /\ Len(Session(ev.user).languages) = 2
    /\ Session(ev.user).tagged = {ev.idx}

\* the step taken is the last one of the subtitle handler h: it is the one
\* gone from the handlers in flight (each upload has its own tok)
Returned(h) ==
    /\ Len(handlers') = Len(handlers) - 1
    /\ \A k \in DOMAIN handlers' : handlers'[k].tok = Remove(handlers, h)[k].tok

\* C25: once a selection was applied to index i of a session, no later
\* selection for index i changes the language of that subtitle.
C25_LanguageSetAtMostOnce ==
    [][\A u \in Users :
        (/\ ev'.op = "language"
         /\ ev'.user = u
         /\ HasSession(u)
         /\ ev'.idx \in heap[user_sessions[u]].tagged)
        => heap'[user_sessions'[u]].languages = heap[user_sessions[u]].languages]_vars

\* C26: the reply that carries the keyboard of a new subtitle leaves the
\* index marked as awaiting a selection, and an accepted selection for an
\* index sets the language of that subtitle and removes the mark.
C26_PendingMarkerSetAndCleared ==
    [][\A u \in Users :
        /\ (ev'.op = "subtitle_ack" /\ ev'.user = u)
               => \A h \in Slots :
                      (handlers[h].pc = "keyboard" /\ Returned(h)
                          /\ user_sessions[u] = handlers[h].sess)
                      => ev'.idx \in heap'[user_sessions'[u]].pending_language_selections
        /\ (ev'.op = "language" /\ ev'.reply = "language_set" /\ ev'.user = u)
               => /\ heap'[user_sessions'[u]].languages[ev'.idx + 1] \in LangCodes
                  /\ ev'.idx \notin heap'[user_sessions'[u]].pending_language_selections]_vars

\* the first half of C26 alone: the mark is recorded with the keyboard
C26_PendingMarkerSet ==
    [][\A u \in Users :
        (ev'.op = "subtitle_ack" /\ ev'.user = u)
            => \A h \in Slots :
                   (handlers[h].pc = "keyboard" /\ Returned(h)
                       /\ user_sessions[u] = handlers[h].sess)
                   => ev'.idx \in heap'[user_sessions'[u]].pending_language_selections]_vars

\* C27: while a finalize of a user is in progress, no second finalize and
\* no subtitle upload of that user is accepted against the same session,
\* so that no two finalizes of one user are in progress together.
C27_FinalizeConsumesSession ==
    /\ [](\A h1, h2 \in Slots :
             (h1 # h2 /\ handlers[h1].kind = "done" /\ handlers[h2].kind = "done")
             => handlers[h1].user # handlers[h2].user)
    /\ [][\A u \in Users :
            (/\ ev'.user = u
             /\ ev'.op \in {"subtitle", "done"}
             /\ \E h \in Slots : /\ handlers[h].kind = "done"
                                  /\ handlers[h].user = u
                                  /\ handlers[h].sess = user_sessions[u])
            => ev'.reply \notin {"downloading_subtitle", "processing"}]_vars

\* C28: an event of a banned user (a message, a command, a file or a
\* button) is stopped by the ban check: it starts no handler and changes
\* neither the session table nor any session.
C28_BannedUserIsStopped ==
    [][\A u \in Users :
        (u \in banned /\ ev'.user = u /\ budget' = budget - 1)
        => /\ user_sessions' = user_sessions
           /\ heap' = heap
           /\ handlers' = handlers]_vars

\* the part of C28 that does not rest on how the dispatcher treats the
\* NameError of line 104: a button pressed by a banned user
C28_BannedButtonIsStopped ==
    [][\A u \in Users :
        (u \in banned /\ ev'.user = u /\ ev'.op = "language")
        => ev'.reply \notin {"language_set", "invalid_index", "session_expired"}]_vars

\* C29: every session object, in the table or held by a handler, is either
\* idle with no video path and no subtitle, or waiting_for_subtitles; and
\* one with a subtitle is waiting_for_subtitles with a video path.
C29_SessionShape ==
    \A n \in DOMAIN heap :
        /\ heap[n].state \in {"idle", "waiting_for_subtitles"}
        /\ heap[n].state = "idle" =>
               (heap[n].video_path = NoPath /\ heap[n].subtitle_paths = <<>>)
        /\ heap[n].subtitle_paths # <<>> =>
               (heap[n].state = "waiting_for_subtitles" /\ heap[n].video_path # NoPath)

C29_Witness ==
    \E n, m \in DOMAIN heap :
        /\ heap[n].subtitle_paths # <<>>
        /\ user_sessions[UserSeq[1]] = m
        /\ n # m
        /\ heap[m].state = "idle"

\* C30: the lists of a session have one entry per subtitle, so the indices
\* are 0..n-1 in the order of the appends, the marks and selections are
\* among them, and the keyboard sent for a subtitle carries the position
\* that subtitle has in the list, other uploads being in flight or not.
C30_IndicesDenseAndOnButtons ==
    /\ [](\A n \in DOMAIN heap :
             LET indices == 0..(Len(heap[n].subtitle_paths) - 1) IN
             /\ Len(heap[n].languages) = Len(heap[n].subtitle_paths)
             /\ Len(heap[n].titles) = Len(heap[n].subtitle_paths)
             /\ Len(heap[n].order) = Len(heap[n].subtitle_paths)
             /\ heap[n].pending_language_selections \subseteq indices
             /\ heap[n].tagged \subseteq indices)
    /\ [][\A h \in Slots :
            (handlers[h].pc = "keyboard" /\ ev'.op = "subtitle_ack" /\ Returned(h))
            => /\ heap[handlers[h].sess].order[handlers[h].idx + 1] = handlers[h].tok
               /\ heap[handlers[h].sess].subtitle_paths[handlers[h].idx + 1] = handlers[h].path
               /\ ev'.idx = handlers[h].idx
               /\ \E kb \in keyboards' :
                      kb.user = handlers[h].user /\ kb.idx = handlers[h].idx]_vars

C30_Witness ==
    /\ ev.op = "subtitle_ack"
    /\ ev.idx = 0
    /\ HasSession(ev.user)
    /\ Len(Session(ev.user).subtitle_paths) = 2
    /\ \E h \in Slots :
           /\ handlers[h].pc = "keyboard"
           /\ handlers[h].idx = 1
           /\ handlers[h].sess = user_sessions[ev.user]

\* C31: a finalize that delivers its result sends it as a document exactly
\* when the video of its session arrived as a document, and as a video
\* exactly when it arrived as a video.
C31_DeliveredAsReceived ==
    [][\A h \in Slots :
        (/\ handlers[h].pc = "upload"
         /\ ev'.op = "upload_return"
         /\ ev'.reply # "error"
         /\ Len(handlers') = Len(handlers)
         /\ handlers'[h].pc = "final")
        => /\ heap[handlers[h].sess].via \in {"video", "video_document"}
           /\ ev'.reply = "send_document" <=> heap[handlers[h].sess].via = "video_document"
           /\ ev'.reply = "send_video" <=> heap[handlers[h].sess].via = "video"]_vars

C31_Witness ==
    /\ ev.op = "upload_return"
    /\ ev.reply = "send_document"
    /\ \E h \in Slots :
           /\ handlers[h].pc = "final"
           /\ handlers[h].res = "sent"
           /\ heap[handlers[h].sess].via = "video_document"

C31_WitnessVideo ==
    /\ ev.op = "upload_return"
    /\ ev.reply = "send_video"


\* ---------------------------------------------------------------------------
\* get_stream_count as a function of the probed file and of what ffprobe does

MaxStreams == 2

\* the codec_type values a probe reports; "" stands for a stream without one
CodecTypes == {"video", "audio", "subtitle", "data", "attachment", "VIDEO", ""}

CountedTypes == {"video", "audio", "subtitle", "data"}

\* str.lower() on the values of CodecTypes
Lower(t) == IF t = "VIDEO" THEN "video" ELSE t

StreamLists == UNION {[1..n -> CodecTypes] : n \in 0..MaxStreams}

\* how the ffprobe process ends
ProbeExits == {"zero", "nonzero", "timeout"}

\* what the ffprobe process wrote: text that is no JSON, the documents {} and
\* null, a JSON list, an object whose "streams" is null, an object without
\* "streams" and an object with a list of streams
ProbeShapes == {"not_json", "empty_object", "null", "list", "streams_null",
                "no_streams", "streams"}

ProbeInputs ==
    {[exists |-> e, exit |-> x, shape |-> sh, streams |-> st] :
        e \in BOOLEAN, x \in ProbeExits, sh \in ProbeShapes, st \in StreamLists}

NoCounts == [t \in CountedTypes |-> 0]

\* the loop over the streams, with the counts it has reached
RECURSIVE CountLoop(_, _)
CountLoop(counts, streams) ==
    IF streams = <<>> THEN counts
    ELSE LET codec_type == Lower(Head(streams)) IN
         CountLoop(IF codec_type = "video" THEN [counts EXCEPT !["video"] = @ + 1]
                   ELSE IF codec_type = "audio" THEN [counts EXCEPT !["audio"] = @ + 1]
                   ELSE IF codec_type = "subtitle" THEN [counts EXCEPT !["subtitle"] = @ + 1]
                   ELSE IF codec_type = "data" THEN [counts EXCEPT !["data"] = @ + 1]
                   ELSE counts,
                   Tail(streams))

\* get_video_info: "None", or the shape of the parsed document
VideoInfo(in) ==
    IF ~in.exists THEN "None"
    ELSE IF in.exit = "timeout" THEN "None"
    ELSE IF in.exit = "nonzero" THEN "None"
    ELSE IF in.shape = "not_json" THEN "None"
    ELSE in.shape

\* get_stream_count: None, an exception that leaves the function, or the counts
StreamCount(in) ==
    LET info == VideoInfo(in) IN
    IF info \in {"None", "null", "empty_object"}
        THEN [kind |-> "None", counts |-> NoCounts]
    ELSE IF info \in {"list", "streams_null"}
        THEN [kind |-> "raises", counts |-> NoCounts]
    ELSE IF info = "no_streams"
        THEN [kind |-> "counts", counts |-> CountLoop(NoCounts, <<>>)]
    ELSE [kind |-> "counts", counts |-> CountLoop(NoCounts, in.streams)]

InitProbe ==
    /\ active = {UserSeq[1]}
    /\ budget = 0
    /\ user_sessions = [u \in Users |-> 0]
    /\ heap = <<>>
    /\ files = {}
    /\ handlers = <<>>
    /\ proc = NoProc
    /\ keyboards = {}
    /\ banned = {}
    /\ now = Epoch
    /\ progress_trackers = NoTrackers
    /\ transfers = <<>>
    /\ ev = Ev("none", UserSeq[1], "none")
    /\ \E in \in ProbeInputs :
           probe = [done |-> FALSE, in |-> in, out |-> [kind |-> "None", counts |-> NoCounts]]

\* the call returns
ProbeReturns ==
    /\ ~probe.done
    /\ probe' = [probe EXCEPT !.done = TRUE, !.out = StreamCount(probe.in)]
    /\ UNCHANGED <<user_sessions, heap, files, handlers, proc, keyboards, active, budget,
                   banned, now, progress_trackers, transfers, ev>>

NextProbe == ProbeReturns

SpecProbe == InitProbe /\ [][NextProbe]_vars

\* the streams of a probe output that have type t
StreamsOfType(in, t) == {k \in DOMAIN in.streams : Lower(in.streams[k]) = t}

\* the probe gave no usable description of the file
ProbeFailed(in) ==
    \/ ~in.exists
    \/ in.exit # "zero"
    \/ in.shape \in {"not_json", "empty_object", "null", "list", "streams_null"}

\* the counts are exactly the streams of the four types
CountsAreExact(in, out) ==
    /\ out.kind = "counts"
    /\ \A t \in CountedTypes :
           out.counts[t] = IF in.shape = "streams" THEN Cardinality(StreamsOfType(in, t)) ELSE 0

\* C32: get_stream_count returns None when the file is missing, the probe exits
\* non-zero or times out or its output is malformed, and otherwise counts in
\* which every stream is counted once under its own type among video, audio,
\* subtitle and data and streams of other types are counted nowhere
C32_StreamCount ==
    probe.done =>
        IF ProbeFailed(probe.in) THEN probe.out.kind = "None"
        ELSE CountsAreExact(probe.in, probe.out)

\* C32, the part the code keeps: whenever the function returns at all, it
\* returns None on a failed probe and exact counts otherwise
C32_StreamCountWhenReturning ==
    (probe.done /\ probe.out.kind # "raises") =>
        IF ProbeFailed(probe.in) THEN probe.out.kind = "None"
        ELSE CountsAreExact(probe.in, probe.out)

\* a probe whose output is a JSON document of the wrong shape
C32_Witness ==
    /\ probe.done
    /\ probe.in.exists /\ probe.in.exit = "zero"
    /\ probe.in.shape \in {"list", "streams_null"}
    /\ probe.out.kind = "raises"

\* a probe with a stream of another type beside a counted one
C32_WitnessCounts ==
    /\ probe.done
    /\ probe.out.kind = "counts"
    /\ probe.in.streams = <<"VIDEO", "attachment">>
    /\ probe.out.counts = [NoCounts EXCEPT !["video"] = 1]


\* every keyboard in u's chat with a button for this index was issued for a
\* session that has been discarded since
OnlyStaleButtons(u, subtitle_index) ==
    \A k \in keyboards : (k.user = u /\ k.idx = subtitle_index) => k.stale

\* C33: a language button issued for a subtitle of a session that has been
\* discarded since never changes a language in the user's current session,
\* also when that session has a subtitle at the same index
C33_StaleButtonChangesNothing ==
    [][\A u \in Users :
        (/\ ev'.op = "language"
         /\ ev'.user = u
         /\ budget' = budget - 1
         /\ OnlyStaleButtons(u, ev'.idx)
         /\ user_sessions[u] # 0)
        => heap'[user_sessions'[u]].languages = heap[user_sessions[u]].languages]_vars

\* C33, the case the code keeps: a stale button whose index the current
\* session does not have changes nothing
C33_StaleButtonOutOfRange ==
    [][\A u \in Users :
        (/\ ev'.op = "language"
         /\ ev'.user = u
         /\ budget' = budget - 1
         /\ OnlyStaleButtons(u, ev'.idx)
         /\ user_sessions[u] # 0
         /\ ev'.idx >= Len(heap[user_sessions[u]].languages))
        => /\ heap'[user_sessions'[u]].languages = heap[user_sessions[u]].languages
           /\ ev'.reply = "invalid_index"]_vars

\* a stale button has set the language of a subtitle of the current session
C33_Witness ==
    /\ ev.op = "language"
    /\ ev.reply = "language_set"
    /\ HasSession(ev.user)
    /\ Session(ev.user).languages[ev.idx + 1] \in LangCodes
    /\ \A k \in keyboards : k.user = ev.user => k.stale


\* the events of u that end a session
Discards == {"cancel", "start", "video", "video_document", "done"}

\* the session in the table for u is the acknowledged one of a video that is
\* on disk
Accepted(u) ==
    /\ user_sessions[u] # 0
    /\ heap[user_sessions[u]].acked
    /\ heap[user_sessions[u]].state = "waiting_for_subtitles"
    /\ heap[user_sessions[u]].video_path \in files

\* C34: when a video handler acknowledges "Video received", the session in the
\* table for that user is waiting for subtitles with that video's path, and it
\* stays so, with the video on disk, until the user's next cancel, start,
\* new-video or finalize event; the teardown of an earlier finalize, cancel or
\* start that overlapped the download does not reset it or delete its files.
\* (A finalize that was taken up for this very session may tear it down.)
C34_AcceptedVideoStays ==
    [][\A u \in Users :
        /\ (/\ ev'.op = "video_ack"
            /\ ev'.user = u
            /\ Len(handlers') = Len(handlers) - 1)
           => /\ Accepted(u)'
              /\ \E h \in Slots :
                    /\ handlers[h].pc = "ack"
                    /\ handlers[h].user = u
                    /\ heap'[user_sessions'[u]].video_path = handlers[h].path
        /\ (/\ Accepted(u)
            /\ ~(budget' = budget - 1 /\ ev'.user = u /\ ev'.op \in Discards)
            /\ ~\E h \in Slots : handlers[h].kind = "done"
                                 /\ handlers[h].sess = user_sessions[u])
           => /\ Accepted(u)'
              /\ heap'[user_sessions'[u]].video_path
                     = heap[user_sessions[u]].video_path]_vars

\* C34, first half alone: the acknowledgement finds the video's session in the table
C34_AckFindsSession ==
    [][\A u \in Users :
        (/\ ev'.op = "video_ack"
         /\ ev'.user = u
         /\ Len(handlers') = Len(handlers) - 1)
        => Accepted(u)']_vars

\* C34, second half alone: an accepted session stays until the next discarding event
C34_AcceptedStays ==
    [][\A u \in Users :
        (/\ Accepted(u)
         /\ ~(budget' = budget - 1 /\ ev'.user = u /\ ev'.op \in Discards)
         /\ ~\E h \in Slots : handlers[h].kind = "done"
                              /\ handlers[h].sess = user_sessions[u])
        => /\ Accepted(u)'
           /\ heap'[user_sessions'[u]].video_path
                  = heap[user_sessions[u]].video_path]_vars

\* a video was acknowledged although its session is not the one in the table
C34_Witness ==
    /\ ev.op = "video_ack"
    /\ ~Accepted(ev.user)


\* C35: a subtitle accepted while session S was the user's current session is
\* appended to S only: when S was replaced in the table during the download,
\* the path, language and title go to S and not to the replacing session
C35_AppendedToOwnSession ==
    [][\A h \in Slots : \A u \in Users :
        (/\ handlers[h].kind = "subtitle"
         /\ handlers[h].pc = "download"
         /\ handlers[h].user = u
         /\ ev'.op = "subtitle_downloaded"
         /\ Len(handlers') = Len(handlers)
         /\ handlers'[h].pc = "keyboard")
        => /\ heap'[handlers'[h].sess].subtitle_paths
                  = Append(heap[handlers[h].sess].subtitle_paths, handlers[h].path)
           /\ heap'[handlers'[h].sess].order
                  = Append(heap[handlers[h].sess].order, handlers[h].tok)
           /\ user_sessions[u] # handlers[h].sess
                  => /\ user_sessions'[u] # handlers'[h].sess
                     /\ heap'[user_sessions'[u]].subtitle_paths
                            = heap[user_sessions[u]].subtitle_paths
                     /\ heap'[user_sessions'[u]].languages
                            = heap[user_sessions[u]].languages
                     /\ heap'[user_sessions'[u]].titles
                            = heap[user_sessions[u]].titles]_vars

\* a subtitle finished downloading after a new video had replaced its session
\* and was itself downloaded
C35_Witness ==
    /\ ev.op = "subtitle_downloaded"
    /\ \E h \in Slots :
          /\ handlers[h].pc = "keyboard"
          /\ handlers[h].user = ev.user
          /\ user_sessions[ev.user] # handlers[h].sess
          /\ heap[handlers[h].sess].subtitle_paths # <<>>
          /\ Session(ev.user).state = "waiting_for_subtitles"
          /\ Session(ev.user).subtitle_paths = <<>>


\* C36: within one session the paths of distinct subtitles are pairwise
\* distinct, also when two uploads with the same file name were downloading at
\* the same time
C36_DistinctSubtitlePaths ==
    \A s \in DOMAIN heap :
        \A i, j \in DOMAIN heap[s].subtitle_paths :
            i # j => heap[s].subtitle_paths[i] # heap[s].subtitle_paths[j]

\* C36 for an upload during whose download no other subtitle was appended to
\* its session: its path is not one the session already has
C36_DistinctWhenAlone ==
    [][\A h \in Slots : \A u \in Users :
        (/\ handlers[h].kind = "subtitle"
         /\ handlers[h].pc = "download"
         /\ handlers[h].user = u
         /\ ev'.op = "subtitle_downloaded"
         /\ Len(handlers') = Len(handlers)
         /\ handlers'[h].pc = "keyboard"
         /\ handlers[h].path
                = SubtitlePath(u, Len(heap[handlers[h].sess].subtitle_paths), handlers[h].name))
        => handlers[h].path \notin Range(heap[handlers[h].sess].subtitle_paths)]_vars

\* two subtitles of one session share a path
C36_Witness ==
    \E u \in Users :
        /\ HasSession(u)
        /\ Len(Session(u).subtitle_paths) = 2
        /\ Session(u).subtitle_paths[1] = Session(u).subtitle_paths[2]


\* no handler of u is between its first and its last step
Quiet(u) == \A h \in Slots : handlers[h].user # u

\* C37: whenever no handler is in flight for a user and the user's session in
\* the table is idle, no file named <user_id>_* is in the download or output
\* directory: every event that replaces a session, /start included, leaves no
\* file of the replaced session behind
C37_IdleMeansNoFiles ==
    \A u \in Users :
        (Quiet(u) /\ HasSession(u) /\ Session(u).state = "idle")
        => UserFiles(u, files) = {}

\* C37 for the replacements that do clean up: right after a cancel or the end
\* of a finalize the user has no files left
C37_TeardownsRemoveFiles ==
    (ev.op \in {"cancel", "done_finally"}) => UserFiles(ev.user, files) = {}

\* /start was handled for a user whose video is on disk
C37_Witness ==
    /\ ev.op = "start"
    /\ Quiet(ev.user)
    /\ Session(ev.user).state = "idle"
    /\ UserFiles(ev.user, files) # {}


\* C38: in every reachable state the subtitle_paths, languages and titles of a
\* session have the same length, so at finalize every subtitle path has a
\* language and a title at its position
C38_ParallelLists ==
    /\ \A s \in DOMAIN heap :
          /\ Len(heap[s].languages) = Len(heap[s].subtitle_paths)
          /\ Len(heap[s].titles) = Len(heap[s].subtitle_paths)
    /\ \A h \in Slots :
          handlers[h].kind = "done" =>
              \A i \in DOMAIN heap[handlers[h].sess].subtitle_paths :
                  /\ i \in DOMAIN heap[handlers[h].sess].languages
                  /\ i \in DOMAIN heap[handlers[h].sess].titles

\* a finalize is in flight for a session with two subtitles
C38_Witness ==
    \E h \in Slots :
        /\ handlers[h].kind = "done"
        /\ Len(heap[handlers[h].sess].subtitle_paths) = 2
        /\ Len(heap[handlers[h].sess].languages) = 2
        /\ Len(heap[handlers[h].sess].titles) = 2


\* ---------------------------------------------------------------------------
\* progress_callback and the tracker entries of the transfers that call it

MaxTransfers == 2

MaxTicks == 4

\* the seconds between two readings of the clock
TickStep == 5

\* line 601: "Update only every 10 seconds"
Interval == 10

\* the transfers that report progress: the download of handle_video, the
\* download of handle_document for subtitle 0, the upload of done_command
TransferKinds == {"video_download", "subtitle_0_download", "upload"}

\* lines 401, 487, 305: f"{user_id}_video_download" and the like
tracker_key(u, kind) == Str(u) \o <<"_", kind>>

\* progress_trackers.get(tracker_key, 0), line 598
last_update_time(trackers, key) == IF key \in DOMAIN trackers THEN trackers[key] ELSE 0

SetTracker(trackers, key, t) ==
    [k \in DOMAIN trackers \cup {key} |-> IF k = key THEN t ELSE trackers[k]]

\* lines 411-412: if tracker_key in progress_trackers: del ...
DelTracker(trackers, key) == [k \in DOMAIN trackers \ {key} |-> trackers[k]]

Transfer(u, kind) ==
    [user |-> u, kind |-> kind, key |-> tracker_key(u, kind), pc |-> "idle",
     current_time |-> 0, last_edit |-> -1, prev_edit |-> -1]

Ops == DOMAIN transfers.ops

\* downloads and uploads are separate queues of the client library
Upload(o) == transfers.ops[o].kind = "upload"

\* the transfers of o's direction that the library is running
Running(o) ==
    {p \in Ops : transfers.ops[p].pc \in {"transfer", "editing"} /\ Upload(p) = Upload(o)}

OnlyProgress ==
    UNCHANGED <<user_sessions, heap, files, handlers, proc, keyboards, active, budget,
                banned, probe, ev>>

\* The Client of lines 28-34 sets no limit on concurrent transfers, so the
\* library's own default applies: one build of the library runs one download
\* and one upload at a time, another runs several.
InitProgress ==
    /\ active = {UserSeq[1]}
    /\ budget = 0
    /\ user_sessions = [u \in Users |-> 0]
    /\ heap = <<>>
    /\ files = {}
    /\ handlers = <<>>
    /\ proc = NoProc
    /\ keyboards = {}
    /\ banned = {}
    /\ probe = NoProbe
    /\ ev = Ev("none", UserSeq[1], "none")
    /\ now = Epoch
    /\ progress_trackers = NoTrackers
    /\ \E limit \in 1..MaxTransfers :
       \E kinds \in [1..MaxTransfers -> TransferKinds] :
           transfers = [limit |-> limit,
                        ops |-> [o \in 1..MaxTransfers |-> Transfer(UserSeq[1], kinds[o])]]

\* the handler sets the tracker entry and awaits the transfer
StartTransfer(o) ==
    /\ transfers.ops[o].pc = "idle"
    /\ progress_trackers' = SetTracker(progress_trackers, transfers.ops[o].key, now)
    /\ transfers' = [transfers EXCEPT !.ops[o].pc = "queued"]
    /\ UNCHANGED now
    /\ OnlyProgress

\* the library starts moving the data
BeginTransfer(o) ==
    /\ transfers.ops[o].pc = "queued"
    /\ Cardinality(Running(o)) < transfers.limit
    /\ transfers' = [transfers EXCEPT !.ops[o].pc = "transfer"]
    /\ UNCHANGED <<now, progress_trackers>>
    /\ OnlyProgress

\* the library awaits progress_callback after a chunk; lines 591-605, up to
\* the await of edit_text (a call that is too early returns at once)
progress_callback(o) ==
    /\ transfers.ops[o].pc = "transfer"
    /\ LET current_time == now IN
       /\ (current_time - last_update_time(progress_trackers, transfers.ops[o].key)) >= Interval
       /\ transfers' = [transfers EXCEPT !.ops[o].pc = "editing",
                                         !.ops[o].current_time = current_time]
    /\ UNCHANGED <<now, progress_trackers>>
    /\ OnlyProgress

\* edit_text returned (line 608 records the time) or raised (lines 609-611)
EditReturns(o) ==
    /\ transfers.ops[o].pc = "editing"
    /\ \/ /\ progress_trackers' = SetTracker(progress_trackers, transfers.ops[o].key,
                                             transfers.ops[o].current_time)
          /\ transfers' = [transfers EXCEPT
                 !.ops[o].pc = "transfer",
                 !.ops[o].prev_edit = transfers.ops[o].last_edit,
                 !.ops[o].last_edit = transfers.ops[o].current_time]
       \/ /\ transfers' = [transfers EXCEPT !.ops[o].pc = "transfer"]
          /\ UNCHANGED progress_trackers
    /\ UNCHANGED now
    /\ OnlyProgress

\* the transfer returned (the entry is deleted) or raised (it is not)
TransferReturns(o) ==
    /\ transfers.ops[o].pc = "transfer"
    /\ transfers' = [transfers EXCEPT !.ops[o].pc = "done"]
    /\ \/ progress_trackers' = DelTracker(progress_trackers, transfers.ops[o].key)
       \/ UNCHANGED progress_trackers
    /\ UNCHANGED now
    /\ OnlyProgress

Tick ==
    /\ now < Epoch + MaxTicks * TickStep
    /\ now' = now + TickStep
    /\ UNCHANGED <<progress_trackers, transfers>>
    /\ OnlyProgress

NextProgress ==
    \/ \E o \in Ops : StartTransfer(o)
    \/ \E o \in Ops : BeginTransfer(o)
    \/ \E o \in Ops : progress_callback(o)
    \/ \E o \in Ops : EditReturns(o)
    \/ \E o \in Ops : TransferReturns(o)
    \/ Tick

SpecProgress == InitProgress /\ [][NextProgress]_vars

\* the last two edits of transfer o are an interval apart
Spaced(o) ==
    transfers.ops[o].prev_edit >= 0
        => transfers.ops[o].last_edit - transfers.ops[o].prev_edit >= Interval

\* no other transfer has the key of o
OwnKey(o) == \A p \in Ops : p # o => transfers.ops[p].key # transfers.ops[o].key

C39_SpacedWithOwnKey == \A o \in Ops : OwnKey(o) => Spaced(o)

\* C39 when the library runs one download and one upload at a time
C39_SpacedWhenOneAtATime == transfers.limit = 1 => \A o \in Ops : Spaced(o)

\* a transfer has edited twice, with its key to itself
C39_WitnessOwnKey ==
    \E o \in Ops : OwnKey(o) /\ transfers.ops[o].prev_edit >= 0

\* a transfer has edited twice within the interval
C39_Witness ==
    \E o \in Ops :
        /\ transfers.ops[o].prev_edit >= 0
        /\ transfers.ops[o].last_edit - transfers.ops[o].prev_edit < Interval
        /\ transfers.ops[o].key \notin DOMAIN progress_trackers
              \/ progress_trackers[transfers.ops[o].key] = transfers.ops[o].last_edit

=============================================================================
